---- MODULE Spec2Model ----
(***************************************************************************)
(* Model of examples/new/monitor.py (grow-python): the per-channel         *)
(* watering / alarm logic (Channel), the button handler (handle_button)    *)
(* and the main loop (main).                                               *)
(*                                                                         *)
(* Units.  Saturation, water_level, alarm_level, pump_speed, wet_point and *)
(* dry_point are held in hundredths (0.5 is 50); pump_time in hundredths   *)
(* of a second; the clock and watering_delay in whole seconds.             *)
(*                                                                         *)
(* Two specifications share the state:                                     *)
(*   Spec      the operations of the module called one at a time, in any   *)
(*             order: Channel.update, handle_button, the clock and the     *)
(*             sensor moving on;                                           *)
(*   MainSpec  the program as main() runs it: settings load, then the      *)
(*             loop of lines 473-488, with the GPIO callback thread        *)
(*             running handle_button statement by statement in between.    *)
(***************************************************************************)
EXTENDS Integers, Sequences, FiniteSets, TLC

VARIABLES
    channels,         \* the three Channel objects (lines 381-385)
    saturation,       \* channel.sensor.saturation, per channel
    now,              \* time.time()
    pump,             \* per channel, the pump.dose calls made so far
    log,              \* the logging events emitted by the last operation
    current_view,     \* global, line 387
    current_subview,  \* global, line 388
    op,               \* Spec: the operation that ran in the last step, if any
    pc,               \* main(): the statement it is about to run
    config,           \* main(): the settings file, then the document loaded
    alarm_enable,     \* main(): local, line 434
    alarm_interval,   \* main(): local, line 435, in hundredths of a second
    view,             \* main(): local `view`
    calls,            \* main(): the calls made so far in this loop iteration
    hpc,              \* callback thread: statement of handle_button
    label,            \* handle_button: local `label`
    hview,            \* handle_button: local `view` (line 416)
    built,            \* the time at which the channels were constructed
    ic_value,         \* indicator_color: argument `value`, in 1/Grid
    ic_r,             \* indicator_color: argument `r` (<< >> for None)
    ic_colour         \* indicator_color: the value returned

vars == << channels, saturation, now, pump, log, current_view,
           current_subview, op, pc, config, alarm_enable,
           alarm_interval, view, calls,
           hpc, label, hview, built, ic_value, ic_r, ic_colour >>

chanVars == << channels, saturation, now, pump, log >>
navVars  == << current_view, current_subview >>
mainVars == << pc, config, alarm_enable, alarm_interval, view, calls >>
cbVars   == << hpc, label, hview >>
colVars  == << ic_value, ic_r, ic_colour >>

\* what no step of Channel.update, handle_button or main() writes
extraVars == << built, colVars >>

-----------------------------------------------------------------------------
(* Bounds of the model *)

\* the clock runs from 0 to MaxTime
MaxTime == 4

-----------------------------------------------------------------------------
(* Constants of the program *)

BUTTONS == << 5, 6, 16, 24 >>
LABELS  == << "A", "B", "X", "Y" >>

NumChannels == 3
Channels == 1 .. NumChannels

\* a value no settings mapping is (config.get(..., None) returning None)
None == [none |-> TRUE]

\* the sensor readings considered, in hundredths
Sats == { 20, 40, 60 }

\* Faulty variant of Channel: last_dose starts so far back that the first
\* dose is due at once
Channel_due(display_channel, t) ==
    [ channel        |-> display_channel,
      water_level    |-> 50,
      alarm_level    |-> 50,
      auto_water     |-> FALSE,
      pump_speed     |-> 70,
      pump_time      |-> 70,
      watering_delay |-> 30,
      wet_point      |-> 70,
      dry_point      |-> 2670,
      last_dose      |-> t - 31,
      enabled        |-> FALSE,
      alarm          |-> FALSE ]

\* Channel.__init__ with the defaults of lines 176-185, built at time t
Channel(display_channel, t) ==
    [ channel        |-> display_channel,
      water_level    |-> 50,
      alarm_level    |-> 50,
      auto_water     |-> FALSE,
      pump_speed     |-> 70,
      pump_time      |-> 70,
      watering_delay |-> 30,
      wet_point      |-> 70,
      dry_point      |-> 2670,
      last_dose      |-> t,
      enabled        |-> FALSE,
      alarm          |-> FALSE ]

\* dict.get(key, default) on a settings mapping
Get(mapping, key, default) ==
    IF key \in DOMAIN mapping THEN mapping[key] ELSE default

\* Faulty variant of update_from_yml: dry_point is read from "wet_point"
update_from_yml_wet(self, cfg) ==
    IF cfg # None
    THEN [ self EXCEPT
             !.pump_speed     = Get(cfg, "pump_speed", self.pump_speed),
             !.pump_time      = Get(cfg, "pump_time", self.pump_time),
             !.alarm_level    = Get(cfg, "alarm_level", self.alarm_level),
             !.water_level    = Get(cfg, "water_level", self.water_level),
             !.watering_delay = Get(cfg, "watering_delay", self.watering_delay),
             !.auto_water     = Get(cfg, "auto_water", self.auto_water),
             !.enabled        = Get(cfg, "enabled", self.enabled),
             !.wet_point      = Get(cfg, "wet_point", self.wet_point),
             !.dry_point      = Get(cfg, "wet_point", self.dry_point) ]
    ELSE self

\* Channel.update_from_yml
update_from_yml(self, cfg) ==
    IF cfg # None
    THEN [ self EXCEPT
             !.pump_speed     = Get(cfg, "pump_speed", self.pump_speed),
             !.pump_time      = Get(cfg, "pump_time", self.pump_time),
             !.alarm_level    = Get(cfg, "alarm_level", self.alarm_level),
             !.water_level    = Get(cfg, "water_level", self.water_level),
             !.watering_delay = Get(cfg, "watering_delay", self.watering_delay),
             !.auto_water     = Get(cfg, "auto_water", self.auto_water),
             !.enabled        = Get(cfg, "enabled", self.enabled),
             !.wet_point      = Get(cfg, "wet_point", self.wet_point),
             !.dry_point      = Get(cfg, "dry_point", self.dry_point) ]
    ELSE self

\* Faulty variant of water: the delay test of line 261 written with >=
water_ge(self, t1, t2) ==
    IF ~self.auto_water
    THEN [ ret |-> FALSE, self |-> self, doses |-> << >> ]
    ELSE IF t1 - self.last_dose >= self.watering_delay
    THEN [ ret   |-> TRUE,
           self  |-> [ self EXCEPT !.last_dose = t2 ],
           doses |-> << [ speed    |-> self.pump_speed,
                          time     |-> self.pump_time,
                          blocking |-> FALSE,
                          at       |-> t1 ] >> ]
    ELSE [ ret |-> FALSE, self |-> self, doses |-> << >> ]

\* Faulty variant of water: the auto_water test of lines 259-260 left out
water_noauto(self, t1, t2) ==
    IF t1 - self.last_dose > self.watering_delay
    THEN [ ret   |-> TRUE,
           self  |-> [ self EXCEPT !.last_dose = t2 ],
           doses |-> << [ speed    |-> self.pump_speed,
                          time     |-> self.pump_time,
                          blocking |-> FALSE,
                          at       |-> t1 ] >> ]
    ELSE [ ret |-> FALSE, self |-> self, doses |-> << >> ]

\* Faulty variant of water: line 263 left out, last_dose is not set
water_nostamp(self, t1, t2) ==
    IF ~self.auto_water
    THEN [ ret |-> FALSE, self |-> self, doses |-> << >> ]
    ELSE IF t1 - self.last_dose > self.watering_delay
    THEN [ ret   |-> TRUE,
           self  |-> self,
           doses |-> << [ speed    |-> self.pump_speed,
                          time     |-> self.pump_time,
                          blocking |-> FALSE,
                          at       |-> t1 ] >> ]
    ELSE [ ret |-> FALSE, self |-> self, doses |-> << >> ]

\* Faulty variant of water: each dose lengthens the channel's watering_delay
water_backoff(self, t1, t2) ==
    IF ~self.auto_water
    THEN [ ret |-> FALSE, self |-> self, doses |-> << >> ]
    ELSE IF t1 - self.last_dose > self.watering_delay
    THEN [ ret   |-> TRUE,
           self  |-> [ self EXCEPT !.last_dose = t2,
                                   !.watering_delay = @ + 1 ],
           doses |-> << [ speed    |-> self.pump_speed,
                          time     |-> self.pump_time,
                          blocking |-> FALSE,
                          at       |-> t1 ] >> ]
    ELSE [ ret |-> FALSE, self |-> self, doses |-> << >> ]

\* Channel.water: t1 is time.time() of line 261, t2 that of line 263.
\* Gives the return value, the channel afterwards and the pump.dose calls.
water(self, t1, t2) ==
    IF ~self.auto_water
    THEN [ ret |-> FALSE, self |-> self, doses |-> << >> ]
    ELSE IF t1 - self.last_dose > self.watering_delay
    THEN [ ret   |-> TRUE,
           self  |-> [ self EXCEPT !.last_dose = t2 ],
           doses |-> << [ speed    |-> self.pump_speed,
                          time     |-> self.pump_time,
                          blocking |-> FALSE,
                          at       |-> t1 ] >> ]
    ELSE [ ret |-> FALSE, self |-> self, doses |-> << >> ]

\* Faulty variant of update: the alarm is cleared when the reading is at or
\* above water_level
update_autoclear(self, sat, t1, t2) ==
    IF ~self.enabled
    THEN [ self |-> self, doses |-> << >>, log |-> { } ]
    ELSE IF sat < self.water_level
    THEN LET w == water(self, t1, t2)
             raise == sat < self.alarm_level /\ ~w.self.alarm
         IN  [ self  |-> IF raise THEN [ w.self EXCEPT !.alarm = TRUE ]
                                  ELSE w.self,
               doses |-> w.doses,
               log   |-> (IF w.ret
                          THEN { [ level |-> "info", channel |-> self.channel ] }
                          ELSE { })
                         \cup
                         (IF raise
                          THEN { [ level |-> "warning", channel |-> self.channel ] }
                          ELSE { }) ]
    ELSE [ self |-> [ self EXCEPT !.alarm = FALSE ], doses |-> << >>, log |-> { } ]

\* Faulty variant of update: the alarm_level test of line 359 left out
update_alarm_any(self, sat, t1, t2) ==
    IF ~self.enabled
    THEN [ self |-> self, doses |-> << >>, log |-> { } ]
    ELSE IF sat < self.water_level
    THEN LET w == water(self, t1, t2)
             raise == TRUE /\ ~w.self.alarm
         IN  [ self  |-> IF raise THEN [ w.self EXCEPT !.alarm = TRUE ]
                                  ELSE w.self,
               doses |-> w.doses,
               log   |-> (IF w.ret
                          THEN { [ level |-> "info", channel |-> self.channel ] }
                          ELSE { })
                         \cup
                         (IF raise
                          THEN { [ level |-> "warning", channel |-> self.channel ] }
                          ELSE { }) ]
    ELSE [ self |-> self, doses |-> << >>, log |-> { } ]

\* Faulty variant of update: the enabled test of lines 349-350 left out
update_noenabled(self, sat, t1, t2) ==
    IF sat < self.water_level
    THEN LET w == water(self, t1, t2)
             raise == sat < self.alarm_level /\ ~w.self.alarm
         IN  [ self  |-> IF raise THEN [ w.self EXCEPT !.alarm = TRUE ]
                                  ELSE w.self,
               doses |-> w.doses,
               log   |-> (IF w.ret
                          THEN { [ level |-> "info", channel |-> self.channel ] }
                          ELSE { })
                         \cup
                         (IF raise
                          THEN { [ level |-> "warning", channel |-> self.channel ] }
                          ELSE { }) ]
    ELSE [ self |-> self, doses |-> << >>, log |-> { } ]

\* Faulty variant of update: the alarm test of line 359 one level out, not
\* under `if sat < self.water_level`
update_alarm_outside(self, sat, t1, t2) ==
    IF ~self.enabled
    THEN [ self |-> self, doses |-> << >>, log |-> { } ]
    ELSE LET w == IF sat < self.water_level
                  THEN water(self, t1, t2)
                  ELSE [ ret |-> FALSE, self |-> self, doses |-> << >> ]
             raise == sat < self.alarm_level /\ ~w.self.alarm
         IN  [ self  |-> IF raise THEN [ w.self EXCEPT !.alarm = TRUE ]
                                  ELSE w.self,
               doses |-> w.doses,
               log   |-> (IF w.ret
                          THEN { [ level |-> "info", channel |-> self.channel ] }
                          ELSE { })
                         \cup
                         (IF raise
                          THEN { [ level |-> "warning", channel |-> self.channel ] }
                          ELSE { }) ]

\* Channel.update with the sensor reading sat: the channel afterwards, the
\* pump.dose calls and the logging events it makes
update(self, sat, t1, t2) ==
    IF ~self.enabled
    THEN [ self |-> self, doses |-> << >>, log |-> { } ]
    ELSE IF sat < self.water_level
    THEN LET w == water(self, t1, t2)
             raise == sat < self.alarm_level /\ ~w.self.alarm
         IN  [ self  |-> IF raise THEN [ w.self EXCEPT !.alarm = TRUE ]
                                  ELSE w.self,
               doses |-> w.doses,
               log   |-> (IF w.ret
                          THEN { [ level |-> "info", channel |-> self.channel ] }
                          ELSE { })
                         \cup
                         (IF raise
                          THEN { [ level |-> "warning", channel |-> self.channel ] }
                          ELSE { }) ]
    ELSE [ self |-> self, doses |-> << >>, log |-> { } ]

-----------------------------------------------------------------------------
(* Views and navigation *)

Renderable(kind, channel) == [ kind |-> kind, channel |-> channel ]

Single(r)   == [ tuple |-> FALSE, items |-> << r >> ]
Tuple(r, s) == [ tuple |-> TRUE,  items |-> << r, s >> ]

\* the list `views` of lines 390-395
views ==
    << Single(Renderable("MainView", 0)),
       Tuple(Renderable("DetailView", 1), Renderable("EditView", 1)),
       Tuple(Renderable("DetailView", 2), Renderable("EditView", 2)),
       Tuple(Renderable("DetailView", 3), Renderable("EditView", 3)) >>

\* Python's len()
len(v) == Len(v)

\* Python's seq[i]: is i an index that does not raise IndexError
InRange(seq, i) == -len(seq) <= i /\ i < len(seq)

\* Python's seq[i], for an index in range (negative ones count from the end)
Item(seq, i) == IF i >= 0 THEN seq[i + 1] ELSE seq[len(seq) + i + 1]

\* isinstance(view, tuple)
IsTuple(v) == v.tuple

\* line 405, current_view += 1
Stmt405(cv) == cv + 1

\* line 406, current_view %= len(views)
Stmt406(cv) == cv % len(views)

\* line 418, current_subview += 1
Stmt418(cs) == cs + 1

\* Faulty variant of Stmt419: no wrap-around
Stmt419_nomod(cs, v) == cs

\* line 419, current_subview %= len(view)
Stmt419(cs, v) == cs % len(v.items)

\* Faulty variant of ButtonA: the current_subview test of line 404 left out
ButtonA_noguard(cv, cs) ==
    [ current_view |-> Stmt406(Stmt405(cv)), current_subview |-> 0 ]

\* handle_button, label "A" (lines 403-408): the indices afterwards
ButtonA(cv, cs) ==
    IF cs = 0
    THEN [ current_view |-> Stmt406(Stmt405(cv)), current_subview |-> 0 ]
    ELSE [ current_view |-> cv, current_subview |-> cs ]

\* Faulty variant of ButtonB: the loop of line 412 stops after one channel
ButtonB_first(chs) ==
    [ c \in DOMAIN chs |-> IF c = 1 THEN [ chs[c] EXCEPT !.alarm = FALSE ]
                                     ELSE chs[c] ]

\* Faulty variant of ButtonB: acknowledging also restarts the watering delay
ButtonB_restart(chs) ==
    [ c \in DOMAIN chs |-> [ chs[c] EXCEPT !.alarm = FALSE, !.last_dose = 0 ] ]

\* handle_button, label "B" (lines 410-413): the channels afterwards.
\* Line 411 also binds a module global `alarm`; no statement reads it (its
\* one use, line 481, is commented out), so it is no part of the state.
ButtonB(chs) == [ c \in DOMAIN chs |-> [ chs[c] EXCEPT !.alarm = FALSE ] ]

\* Faulty variant of ButtonX: line 419 left out
ButtonX_nowrap(cv, cs) ==
    LET v == Item(views, cv)
    IN  IF IsTuple(v)
        THEN [ current_view |-> cv, current_subview |-> Stmt418(cs) ]
        ELSE [ current_view |-> cv, current_subview |-> cs ]

\* handle_button, label "X" (lines 415-420): the indices afterwards
ButtonX(cv, cs) ==
    LET v == Item(views, cv)
    IN  IF IsTuple(v)
        THEN [ current_view |-> cv, current_subview |-> Stmt419(Stmt418(cs), v) ]
        ELSE [ current_view |-> cv, current_subview |-> cs ]

\* handle_button, label "Y" (lines 422-423): pass
ButtonY(cv, cs) == [ current_view |-> cv, current_subview |-> cs ]

-----------------------------------------------------------------------------
(* Settings documents *)

\* "channel{}".format(channel.channel), line 452
ChannelKey(c) == << "channel1", "channel2", "channel3" >>[c]

\* channel 1 waters and alarms below different levels; channel 2 is enabled
\* but does not water by itself; channel 3 has no entry
Doc1 ==
    [ channel1 |-> [ enabled |-> TRUE, auto_water |-> TRUE,
                     watering_delay |-> 1, alarm_level |-> 30 ],
      channel2 |-> [ enabled |-> TRUE, auto_water |-> FALSE,
                     watering_delay |-> 1, water_level |-> 30 ] ]

\* channel 1 is set up to water but is not enabled; channel 3 keeps the
\* default watering_delay of 30 s and carries a key the program ignores
Doc2 ==
    [ channel1 |-> [ enabled |-> FALSE, auto_water |-> TRUE,
                     watering_delay |-> 1 ],
      channel2 |-> [ enabled |-> TRUE, auto_water |-> TRUE,
                     watering_delay |-> 1 ],
      channel3 |-> [ enabled |-> TRUE, auto_water |-> TRUE, icon |-> "x" ],
      general  |-> [ alarm_enable |-> FALSE ] ]

\* no channel is enabled; channel 3 has its pump and its calibration set
Doc3 ==
    [ channel3 |-> [ pump_speed |-> 50, pump_time |-> 100,
                     wet_point |-> 300, dry_point |-> 2500 ],
      general  |-> [ alarm_interval |-> 500 ] ]

\* the well-formed settings documents considered
Settings == { Doc1, Doc2, Doc3 }

\* lines 455-458: the locals alarm_enable and alarm_interval afterwards
General(doc, enable, interval) ==
    LET settings == Get(doc, "general", None)
    IN  IF settings # None
        THEN [ alarm_enable   |-> Get(settings, "alarm_enable", enable),
               alarm_interval |-> Get(settings, "alarm_interval", interval) ]
        ELSE [ alarm_enable |-> enable, alarm_interval |-> interval ]

\* lines 451-453 run to the end: every channel with its entry applied
Configured(chs, doc) ==
    [ c \in DOMAIN chs |-> update_from_yml(chs[c], Get(doc, ChannelKey(c), None)) ]

-----------------------------------------------------------------------------
(* Spec: the operations, one at a time *)

\* main() is about to run the statement at `line` (for channel ch, inside
\* the loop of line 451); raised names the exception that ended it
At(line, ch) == [ line |-> line, ch |-> ch, raised |-> "" ]

Raised(line, exc) == [ line |-> line, ch |-> 0, raised |-> exc ]

\* the callback thread is about to run the statement at `line` of
\* handle_button (for channel ch, inside the loop of line 412)
HAt(line, ch) == [ line |-> line, ch |-> ch ]

\* no callback is running
Idle == HAt(0, 0)

Op(name, ch, lbl) == [ name |-> name, ch |-> ch, label |-> lbl ]

\* the last step was the clock's or a sensor's, or there was none yet
NoOp == Op("none", 0, "")

\* indicator_color has not been called
NoColour ==
    /\ ic_value = 0
    /\ ic_r = << >>
    /\ ic_colour = << >>

\* The channels are built at time 0 (lines 381-385), the settings are
\* applied, and main() is about to enter its loop.
Init ==
    /\ built = 0
    /\ config \in Settings
    /\ channels = Configured([ c \in Channels |-> Channel(c, built) ], config)
    /\ saturation \in [ Channels -> Sats ]
    /\ now = 0
    /\ pump = [ c \in Channels |-> << >> ]
    /\ log = { }
    /\ current_view = 0
    /\ current_subview = 0
    /\ op = NoOp
    /\ alarm_enable = General(config, TRUE, 1000).alarm_enable
    /\ alarm_interval = General(config, TRUE, 1000).alarm_interval
    /\ pc = At(474, 0)
    /\ view = Item(views, 0)
    /\ calls = << >>
    /\ hpc = Idle
    /\ label = ""
    /\ hview = Item(views, 0)
    /\ NoColour

\* channel c's update() is called; the clock may move on by d between the
\* two time.time() calls of water()
Update(c) ==
    \E d \in { 0, 1 } :
        LET r == update(channels[c], saturation[c], now, now + d)
        IN  /\ now + d <= MaxTime
            /\ channels' = [ channels EXCEPT ![c] = r.self ]
            /\ pump' = [ pump EXCEPT ![c] = @ \o r.doses ]
            /\ log' = r.log
            /\ now' = IF r.doses # << >> THEN now + d ELSE now
            /\ op' = Op("update", c, "")
            /\ UNCHANGED << saturation, navVars, mainVars, cbVars, extraVars >>

\* the sensor of channel c reads another saturation
Sense(c) ==
    \E s \in Sats \ { saturation[c] } :
        /\ saturation' = [ saturation EXCEPT ![c] = s ]
        /\ log' = { }
        /\ op' = NoOp
        /\ UNCHANGED << channels, now, pump, navVars, mainVars, cbVars, extraVars >>

\* a second passes
Advance ==
    /\ now < MaxTime
    /\ now' = now + 1
    /\ log' = { }
    /\ op' = NoOp
    /\ UNCHANGED << channels, saturation, pump, navVars, mainVars, cbVars, extraVars >>

\* handle_button(pin), run from its first statement to its last
HandleButton(pin) ==
    LET index == CHOOSE i \in DOMAIN BUTTONS : BUTTONS[i] = pin
        lbl   == LABELS[index]
        nav   == CASE lbl = "A" -> ButtonA(current_view, current_subview)
                   [] lbl = "X" -> ButtonX(current_view, current_subview)
                   [] OTHER     -> ButtonY(current_view, current_subview)
    IN  /\ current_view' = nav.current_view
        /\ current_subview' = nav.current_subview
        /\ channels' = IF lbl = "B" THEN ButtonB(channels) ELSE channels
        /\ log' = { }
        /\ op' = Op("button", 0, lbl)
        /\ UNCHANGED << saturation, now, pump, mainVars, cbVars, extraVars >>

Pins == { BUTTONS[i] : i \in DOMAIN BUTTONS }

Next ==
    \/ \E c \in Channels : Update(c)
    \/ \E c \in Channels : Sense(c)
    \/ Advance
    \/ \E pin \in Pins : HandleButton(pin)

Spec == Init /\ [][Next]_vars

-----------------------------------------------------------------------------
(* MainSpec: main() and the GPIO callback thread *)

\* what settings_file may be: no file, a file yaml cannot parse, or a file
\* yaml parses into a document
NoFile      == [ is_file |-> FALSE, parses |-> FALSE, doc |-> None ]
BadFile     == [ is_file |-> TRUE,  parses |-> FALSE, doc |-> None ]
File(doc)   == [ is_file |-> TRUE,  parses |-> TRUE,  doc |-> doc ]

\* a YAML value that is not a mapping (a number, a string, a list)
Scalar == [ scalar |-> TRUE ]

\* is x a dict, so that x.get exists
IsMapping(x) == x # None /\ x # Scalar

\* a document yaml parses, whose entry for channel 2 is not a mapping
Doc4 ==
    [ channel1 |-> [ enabled |-> TRUE, auto_water |-> TRUE ],
      channel2 |-> Scalar ]

\* an empty file (yaml.safe_load gives None) is File(None)
Files ==
    { NoFile, BadFile } \cup { File(d) : d \in Settings \cup { Doc4, None } }

Call(fn, kind, ch) == [ fn |-> fn, kind |-> kind, ch |-> ch ]

MainInit ==
    /\ built = 0
    /\ config \in Files
    /\ channels = [ c \in Channels |-> Channel(c, built) ]
    /\ saturation \in { [ c \in Channels |-> s ] : s \in { 20, 60 } }
    /\ now = 0
    /\ pump = [ c \in Channels |-> << >> ]
    /\ log = { }
    /\ current_view = 0
    /\ current_subview = 0
    /\ op = NoOp
    /\ alarm_enable = TRUE
    /\ alarm_interval = 1000
    /\ pc = At(443, 0)
    /\ view = Item(views, 0)
    /\ calls = << >>
    /\ hpc = Idle
    /\ label = ""
    /\ hview = Item(views, 0)
    /\ NoColour

Running == pc.raised = ""

mainOnly == << chanVars, navVars, op, cbVars, extraVars >>

\* line 443: if settings_file.is_file()
Main443 ==
    /\ Running /\ pc.line = 443
    /\ pc' = IF config.is_file THEN At(445, 0) ELSE At(474, 0)
    /\ UNCHANGED << mainOnly, config, alarm_enable, alarm_interval, view, calls >>

\* lines 444-449: config = yaml.safe_load(...), or the ParserError raised
Main445 ==
    /\ Running /\ pc.line = 445
    /\ IF config.parses
       THEN config' = config.doc /\ pc' = At(451, 1)
       ELSE config' = config /\ pc' = Raised(447, "ParserError")
    /\ UNCHANGED << mainOnly, alarm_enable, alarm_interval, view, calls >>

\* lines 451-453, one iteration: channel.update_from_yml(config.get(...)),
\* or the AttributeError of calling get on a value that has none
Main451 ==
    /\ Running /\ pc.line = 451
    /\ LET c  == pc.ch
           ch == Get(config, ChannelKey(c), None)
       IN  IF ~IsMapping(config)
           THEN \* line 452: config.get on what is no dict
                /\ channels' = channels
                /\ pc' = Raised(452, "AttributeError")
           ELSE IF ch # None /\ ~IsMapping(ch)
           THEN \* line 228: config.get inside update_from_yml
                /\ channels' = channels
                /\ pc' = Raised(228, "AttributeError")
           ELSE /\ channels' = [ channels EXCEPT ![c] = update_from_yml(@, ch) ]
                /\ pc' = IF c < NumChannels THEN At(451, c + 1) ELSE At(455, 0)
    /\ UNCHANGED << saturation, now, pump, log, navVars, op, cbVars, extraVars,
                    config, alarm_enable, alarm_interval, view, calls >>

\* lines 455-471: the general settings, then the printing
Main455 ==
    /\ Running /\ pc.line = 455
    /\ LET g == General(config, alarm_enable, alarm_interval)
       IN  /\ alarm_enable' = g.alarm_enable
           /\ alarm_interval' = g.alarm_interval
    /\ pc' = At(474, 0)
    /\ UNCHANGED << mainOnly, config, view, calls >>

\* line 474: view = views[current_view]
Main474 ==
    /\ Running /\ pc.line = 474
    /\ calls' = << >>
    /\ IF InRange(views, current_view)
       THEN view' = Item(views, current_view) /\ pc' = At(475, 0)
       ELSE view' = view /\ pc' = Raised(474, "IndexError")
    /\ UNCHANGED << mainOnly, config, alarm_enable, alarm_interval >>

\* line 475: if isinstance(view, tuple)
Main475 ==
    /\ Running /\ pc.line = 475
    /\ pc' = IF IsTuple(view) THEN At(476, 0) ELSE At(477, 0)
    /\ UNCHANGED << mainOnly, config, alarm_enable, alarm_interval, view, calls >>

\* line 476: view = view[current_subview]
Main476 ==
    /\ Running /\ pc.line = 476
    /\ IF InRange(view.items, current_subview)
       THEN view' = Single(Item(view.items, current_subview)) /\ pc' = At(477, 0)
       ELSE view' = view /\ pc' = Raised(476, "IndexError")
    /\ UNCHANGED << mainOnly, config, alarm_enable, alarm_interval, calls >>

\* line 477: view.update(), which is View.update (lines 55-56): pass
Main477 ==
    /\ Running /\ pc.line = 477
    /\ calls' = Append(calls, Call("View.update", view.items[1].kind, view.items[1].channel))
    /\ pc' = At(478, 0)
    /\ UNCHANGED << mainOnly, config, alarm_enable, alarm_interval, view >>

\* line 478: view.render(image); the render methods change no state
Main478 ==
    /\ Running /\ pc.line = 478
    /\ calls' = Append(calls, Call("render", view.items[1].kind, view.items[1].channel))
    /\ pc' = At(479, 0)
    /\ UNCHANGED << mainOnly, config, alarm_enable, alarm_interval, view >>

\* line 479: display.display(image.convert("RGB"))
Main479 ==
    /\ Running /\ pc.line = 479
    /\ calls' = Append(calls, Call("display.display", view.items[1].kind, view.items[1].channel))
    /\ pc' = At(488, 0)
    /\ UNCHANGED << mainOnly, config, alarm_enable, alarm_interval, view >>

\* line 488: time.sleep(1.0 / 10), then the next iteration
Main488 ==
    /\ Running /\ pc.line = 488
    /\ pc' = At(474, 0)
    /\ UNCHANGED << mainOnly, config, alarm_enable, alarm_interval, view, calls >>

\* what the callback thread never writes
cbOnly == << saturation, now, pump, log, op, mainVars, extraVars >>

\* a falling edge on `pin`: RPi.GPIO runs the callbacks one after the other
\* on its own thread, so a new one starts only when none is running.
\* Lines 400-401: index = BUTTONS.index(pin); label = LABELS[index]
Press(pin) ==
    /\ Running /\ hpc = Idle
    /\ LET index == CHOOSE i \in DOMAIN BUTTONS : BUTTONS[i] = pin
       IN  label' = LABELS[index]
    /\ hpc' = HAt(403, 0)
    /\ UNCHANGED << cbOnly, channels, navVars, hview >>

\* line 403: if label == "A"
H403 ==
    /\ Running /\ hpc.line = 403
    /\ hpc' = IF label = "A" THEN HAt(404, 0) ELSE HAt(410, 0)
    /\ UNCHANGED << cbOnly, channels, navVars, label, hview >>

\* line 404: if current_subview == 0
H404 ==
    /\ Running /\ hpc.line = 404
    /\ hpc' = IF current_subview = 0 THEN HAt(405, 0) ELSE HAt(410, 0)
    /\ UNCHANGED << cbOnly, channels, navVars, label, hview >>

\* line 405: current_view += 1
H405 ==
    /\ Running /\ hpc.line = 405
    /\ current_view' = Stmt405(current_view)
    /\ hpc' = HAt(406, 0)
    /\ UNCHANGED << cbOnly, channels, current_subview, label, hview >>

\* line 406: current_view %= len(views)
H406 ==
    /\ Running /\ hpc.line = 406
    /\ current_view' = Stmt406(current_view)
    /\ hpc' = HAt(407, 0)
    /\ UNCHANGED << cbOnly, channels, current_subview, label, hview >>

\* lines 407-408: current_subview = 0, and the print
H407 ==
    /\ Running /\ hpc.line = 407
    /\ current_subview' = 0
    /\ hpc' = HAt(410, 0)
    /\ UNCHANGED << cbOnly, channels, current_view, label, hview >>

\* lines 410-411: if label == "B", then the loop of line 412 begins
H410 ==
    /\ Running /\ hpc.line = 410
    /\ hpc' = IF label = "B" THEN HAt(413, 1) ELSE HAt(415, 0)
    /\ UNCHANGED << cbOnly, channels, navVars, label, hview >>

\* lines 412-413, one iteration: channel.alarm = False
H413 ==
    /\ Running /\ hpc.line = 413
    /\ channels' = [ channels EXCEPT ![hpc.ch] = ButtonB(<< @ >>)[1] ]
    /\ hpc' = IF hpc.ch < NumChannels THEN HAt(413, hpc.ch + 1) ELSE HAt(415, 0)
    /\ UNCHANGED << cbOnly, navVars, label, hview >>

\* line 415: if label == "X"
H415 ==
    /\ Running /\ hpc.line = 415
    /\ hpc' = IF label = "X" THEN HAt(416, 0) ELSE HAt(422, 0)
    /\ UNCHANGED << cbOnly, channels, navVars, label, hview >>

\* line 416: view = views[current_view]
H416 ==
    /\ Running /\ hpc.line = 416
    /\ InRange(views, current_view)
    /\ hview' = Item(views, current_view)
    /\ hpc' = HAt(417, 0)
    /\ UNCHANGED << cbOnly, channels, navVars, label >>

\* line 417: if isinstance(view, tuple)
H417 ==
    /\ Running /\ hpc.line = 417
    /\ hpc' = IF IsTuple(hview) THEN HAt(418, 0) ELSE HAt(422, 0)
    /\ UNCHANGED << cbOnly, channels, navVars, label, hview >>

\* line 418: current_subview += 1
H418 ==
    /\ Running /\ hpc.line = 418
    /\ current_subview' = Stmt418(current_subview)
    /\ hpc' = HAt(419, 0)
    /\ UNCHANGED << cbOnly, channels, current_view, label, hview >>

\* lines 419-420: current_subview %= len(view), and the print
H419 ==
    /\ Running /\ hpc.line = 419
    /\ current_subview' = Stmt419(current_subview, hview)
    /\ hpc' = HAt(422, 0)
    /\ UNCHANGED << cbOnly, channels, current_view, label, hview >>

\* lines 422-423: if label == "Y": pass; the callback returns and its
\* locals are gone
H422 ==
    /\ Running /\ hpc.line = 422
    /\ hpc' = Idle
    /\ label' = ""
    /\ hview' = Item(views, 0)
    /\ UNCHANGED << cbOnly, channels, navVars >>

MainNext ==
    \/ Main443 \/ Main445 \/ Main451 \/ Main455
    \/ Main474 \/ Main475 \/ Main476 \/ Main477 \/ Main478 \/ Main479
    \/ Main488
    \/ \E pin \in Pins : Press(pin)
    \/ H403 \/ H404 \/ H405 \/ H406 \/ H407 \/ H410 \/ H413
    \/ H415 \/ H416 \/ H417 \/ H418 \/ H419 \/ H422

MainSpec == MainInit /\ [][MainNext]_vars

-----------------------------------------------------------------------------
(* ScenarioSpec: three channels with water_level 0.5, alarm_level 0.3 and   *)
(* watering_delay 30; channel 1 reads 0.2 from t = 0 on and is updated at   *)
(* t = 0, 10 and 40; the alarm is acknowledged at t = 41.                   *)

\* the channels were constructed at most MaxLead seconds before t = 0
MaxLead == 32

\* the times of the scenario
ScenarioTimes == << 0, 10, 40, 41 >>

ScenarioEntry(enabled) ==
    [ water_level |-> 50, alarm_level |-> 30, watering_delay |-> 30,
      auto_water |-> TRUE, enabled |-> enabled ]

\* channel 1 is enabled; channels 2 and 3 may be
ScenarioSettings ==
    { [ channel1 |-> ScenarioEntry(TRUE),
        channel2 |-> ScenarioEntry(e2),
        channel3 |-> ScenarioEntry(e3) ] : e2 \in BOOLEAN, e3 \in BOOLEAN }

\* No channel has dosed before t = 0 (the readings were above water_level).
ScenarioInit ==
    /\ built \in -MaxLead .. 0
    /\ config \in ScenarioSettings
    /\ channels = Configured([ c \in Channels |-> Channel(c, built) ], config)
    /\ saturation \in { f \in [ Channels -> Sats ] : f[1] = 20 }
    /\ now = ScenarioTimes[1]
    /\ pump = [ c \in Channels |-> << >> ]
    /\ log = { }
    /\ current_view = 0
    /\ current_subview = 0
    /\ op = NoOp
    /\ alarm_enable = TRUE
    /\ alarm_interval = 1000
    /\ pc = At(474, 0)
    /\ view = Item(views, 0)
    /\ calls = << >>
    /\ hpc = Idle
    /\ label = ""
    /\ hview = Item(views, 0)
    /\ NoColour

\* channel c's update() at one of the first three times of the scenario
ScnUpdate(c) ==
    LET r == update(channels[c], saturation[c], now, now)
    IN  /\ \E i \in 1 .. Len(ScenarioTimes) - 1 : now = ScenarioTimes[i]
        /\ channels' = [ channels EXCEPT ![c] = r.self ]
        /\ pump' = [ pump EXCEPT ![c] = @ \o r.doses ]
        /\ log' = r.log
        /\ op' = Op("update", c, "")
        /\ UNCHANGED << saturation, now, navVars, mainVars, cbVars, extraVars >>

\* channel 1 has been updated: the clock moves to the next time
ScnAdvance ==
    \E i \in 1 .. Len(ScenarioTimes) - 1 :
        /\ now = ScenarioTimes[i]
        /\ op = Op("update", 1, "")
        /\ now' = ScenarioTimes[i + 1]
        /\ log' = { }
        /\ op' = NoOp
        /\ UNCHANGED << channels, saturation, pump, navVars, mainVars, cbVars,
                        extraVars >>

\* the acknowledge action at the last time: button B
ScnAcknowledge ==
    /\ now = ScenarioTimes[Len(ScenarioTimes)]
    /\ HandleButton(BUTTONS[2])

ScenarioNext ==
    \/ \E c \in Channels : ScnUpdate(c)
    \/ ScnAdvance
    \/ ScnAcknowledge

ScenarioSpec == ScenarioInit /\ [][ScenarioNext]_vars

-----------------------------------------------------------------------------
(* ColorSpec: Channel.indicator_color, lines 207-224, applied to a value    *)
(* k / Grid of [0, 1] and to a palette.  The arithmetic is exact: a value   *)
(* is held as its numerator over Grid.  Grid is a power of two, so that the *)
(* floating-point arithmetic of the program is exact on these values too.   *)

Grid == 64

\* lines 155-160
bar_colours ==
    << << 192, 225, 254 >>, << 196, 255, 209 >>,
       << 255, 243, 192 >>, << 254, 192, 192 >> >>

\* lines 162-167
label_colours ==
    << << 32, 137, 251 >>, << 100, 255, 124 >>,
       << 254, 219, 82 >>, << 254, 82, 82 >> >>

\* the argument r of the calls of lines 302, 329 and 336: left out (None,
\* written << >>) or label_colours; bar_colours handed over explicitly too
Palettes == { << >>, bar_colours, label_colours }

\* math.floor(n / d), d > 0
Floor(n, d) == n \div d

\* int(n / d), d > 0: the fraction is dropped, towards zero
int(n, d) == IF n >= 0 THEN n \div d ELSE -((-n) \div d)

\* Faulty variant of indicator_color: the value is not inverted
indicator_color_noinvert(value, r) ==
    LET v  == value
        r1 == IF r = << >> THEN bar_colours ELSE r
    IN  IF v = Grid THEN Item(r1, -1)
        ELSE IF v = 0 THEN Item(r1, 0)
        ELSE LET scaled == v * (len(r1) - 1)
                 a      == Floor(scaled, Grid)
                 b      == a + 1
                 blend  == scaled - a * Grid
             IN  [ i \in 1 .. 3 |->
                     int((Item(r1, b)[i] - Item(r1, a)[i]) * blend
                         + Item(r1, a)[i] * Grid, Grid) ]

\* Faulty variant of indicator_color: the blend is the scaled value, with
\* the whole part left in
indicator_color_blend(value, r) ==
    LET v  == Grid - value
        r1 == IF r = << >> THEN bar_colours ELSE r
    IN  IF v = Grid THEN Item(r1, -1)
        ELSE IF v = 0 THEN Item(r1, 0)
        ELSE LET scaled == v * (len(r1) - 1)
                 a      == Floor(scaled, Grid)
                 b      == a + 1
                 blend  == scaled
             IN  [ i \in 1 .. 3 |->
                     int((Item(r1, b)[i] - Item(r1, a)[i]) * blend
                         + Item(r1, a)[i] * Grid, Grid) ]

\* Channel.indicator_color(value, r), lines 207-224; value and blend are
\* numerators over Grid
indicator_color(value, r) ==
    LET v  == Grid - value                                    \* line 208
        r1 == IF r = << >> THEN bar_colours ELSE r            \* 210-211
    IN  IF v = Grid THEN Item(r1, -1)                         \* 212-213
        ELSE IF v = 0 THEN Item(r1, 0)                        \* 214-215
        ELSE LET scaled == v * (len(r1) - 1)                  \* line 217
                 a      == Floor(scaled, Grid)                \* line 218
                 b      == a + 1                              \* line 219
                 blend  == scaled - a * Grid                  \* line 220
             IN  [ i \in 1 .. 3 |->                           \* line 222
                     int((Item(r1, b)[i] - Item(r1, a)[i]) * blend
                         + Item(r1, a)[i] * Grid, Grid) ]

\* the arguments are chosen; the function has not been called
ColorInit ==
    /\ built = 0
    /\ config = None
    /\ channels = [ c \in Channels |-> Channel(c, built) ]
    /\ saturation = [ c \in Channels |-> 60 ]
    /\ now = 0
    /\ pump = [ c \in Channels |-> << >> ]
    /\ log = { }
    /\ current_view = 0
    /\ current_subview = 0
    /\ op = NoOp
    /\ alarm_enable = TRUE
    /\ alarm_interval = 1000
    /\ pc = At(474, 0)
    /\ view = Item(views, 0)
    /\ calls = << >>
    /\ hpc = Idle
    /\ label = ""
    /\ hview = Item(views, 0)
    /\ ic_value \in 0 .. Grid
    /\ ic_r \in Palettes
    /\ ic_colour = << >>

\* the call returns
IndicatorColor ==
    /\ ic_colour = << >>
    /\ ic_colour' = indicator_color(ic_value, ic_r)
    /\ UNCHANGED << ic_value, ic_r, built >>
    /\ UNCHANGED << chanVars, navVars, op, mainVars, cbVars >>

ColorNext == IndicatorColor

ColorSpec == ColorInit /\ [][ColorNext]_vars

-----------------------------------------------------------------------------
(* Properties *)

\* the last step was channel c's update()
Updated(c) == op = Op("update", c, "")

\* the last step was handle_button for the button labelled lbl
Pressed(lbl) == op = Op("button", 0, lbl)

\* more than watering_delay has passed since channel c's last_dose
Elapsed(c) == now - channels[c].last_dose > channels[c].watering_delay

\* channel c's sensor reads below its water_level / its alarm_level
BelowWater(c) == saturation[c] < channels[c].water_level
BelowAlarm(c) == saturation[c] < channels[c].alarm_level

\* this step makes a pump.dose call on channel c
Doses(c) == pump'[c] # pump[c]

\* C1: for an enabled, auto-watering channel reading below water_level, an
\* update() issues a dose exactly when more than watering_delay has passed
\* since last_dose, and then exactly one; a dose is issued by nothing else,
\* and it comes more than watering_delay after the dose before it.
C1_DoseOncePerWindow ==
    [][ \A c \in Channels :
          /\ Doses(c) =>
                /\ Updated(c)'
                /\ channels[c].enabled /\ channels[c].auto_water
                /\ BelowWater(c) /\ Elapsed(c)
                /\ Len(pump'[c]) = Len(pump[c]) + 1
                /\ pump[c] # << >> =>
                      pump'[c][Len(pump'[c])].at - pump[c][Len(pump[c])].at
                          > channels[c].watering_delay
          /\ ( Updated(c)' /\ channels[c].enabled /\ channels[c].auto_water
               /\ BelowWater(c) /\ Elapsed(c) ) => Doses(c)
      ]_vars

\* an update() inside the window, after two doses, that issued none
C1_Witness ==
    \E c \in Channels :
        /\ Updated(c) /\ channels[c].enabled /\ channels[c].auto_water
        /\ BelowWater(c) /\ ~Elapsed(c)
        /\ Len(pump[c]) >= 2
        /\ log = { }

\* C2: an alarm flag that is true becomes false in no step but the
\* Acknowledge button event (B): not in update(), whatever the saturation,
\* and not in the events of buttons A, X and Y.
C2_AlarmLatch ==
    [][ \A c \in Channels :
          ( channels[c].alarm /\ ~channels'[c].alarm ) => Pressed("B")'
      ]_vars

\* an update() that read a saturation at or above both levels and left the
\* alarm on
C2_Witness ==
    \E c \in Channels :
        /\ Updated(c) /\ channels[c].enabled /\ channels[c].alarm
        /\ ~BelowWater(c) /\ ~BelowAlarm(c)

\* C3: when main() renders the view, it has called update() of each of the
\* channels in this iteration of its loop.
C3_UpdatesBeforeRender ==
    pc.line \in { 478, 479, 488 } =>
        \A c \in Channels :
            \E i \in DOMAIN calls : calls[i] = Call("Channel.update", "Channel", c)

\* C4: main() never looks up views[current_view] or view[current_subview]
\* with an index out of range.
C4_NoOutOfRangeRead == pc.raised # "IndexError"

\* C5: between button events, current_view indexes views and
\* current_subview indexes the sub-views of that view (0 for the main view).
C5_IndicesInBounds ==
    /\ current_view \in 0 .. len(views) - 1
    /\ current_subview \in 0 .. len(views[current_view + 1].items) - 1

\* Next on the last view has wrapped to view 0
C5_Witness == Pressed("A") /\ current_view = 0 /\ current_subview = 0

\* C6: an alarm flag goes from false to true only in update() of that
\* channel, the channel being enabled and reading below its alarm_level.
C6_AlarmRaisedOnlyByUpdate ==
    [][ \A c \in Channels :
          ( ~channels[c].alarm /\ channels'[c].alarm ) =>
              /\ Updated(c)'
              /\ channels[c].enabled
              /\ BelowAlarm(c)
      ]_vars

\* an update() that has just raised the alarm
C6_Witness ==
    \E c \in Channels :
        /\ Updated(c) /\ channels[c].alarm
        /\ [ level |-> "warning", channel |-> c ] \in log

\* C7: update() of a channel that is not enabled doses nothing, leaves
\* last_dose and the alarm flag (the whole channel) as they were and logs
\* nothing.
C7_DisabledUpdateNoOp ==
    [][ \A c \in Channels :
          ( Updated(c)' /\ ~channels[c].enabled ) =>
              /\ pump' = pump
              /\ channels' = channels
              /\ log' = { }
              /\ now' = now
      ]_vars

\* update() of a disabled channel that would have watered and alarmed
C7_Witness ==
    \E c \in Channels :
        /\ Updated(c) /\ ~channels[c].enabled /\ channels[c].auto_water
        /\ BelowWater(c) /\ BelowAlarm(c) /\ Elapsed(c)

\* C8: after the Acknowledge button event (B) no channel's alarm flag is set.
C8_AcknowledgeClearsAll ==
    Pressed("B") => \A c \in Channels : ~channels[c].alarm

\* B pressed in an edit sub-view, with an enabled channel still reading
\* below its alarm_level and another channel not enabled
C8_Witness ==
    /\ Pressed("B") /\ current_subview = 1
    /\ \E c \in Channels : channels[c].enabled /\ BelowWater(c) /\ BelowAlarm(c)
    /\ \E c \in Channels : ~channels[c].enabled

\* C9: a channel with auto_water false gets no dose and keeps its last_dose
\* in every step.
C9_NoAutoWaterNoDose ==
    [][ \A c \in Channels :
          ~channels[c].auto_water =>
              /\ pump'[c] = pump[c]
              /\ channels'[c].last_dose = channels[c].last_dose
      ]_vars

\* update() of an enabled channel without auto_water, dry and past the delay
C9_Witness ==
    \E c \in Channels :
        /\ Updated(c) /\ channels[c].enabled /\ ~channels[c].auto_water
        /\ BelowWater(c) /\ Elapsed(c)

\* C10: the Next button event (A) with current_subview 0 sets current_view
\* to (current_view + 1) mod the number of views and leaves current_subview
\* 0; with current_subview not 0 it changes neither.
C10_NextWraps ==
    [][ Pressed("A")' =>
          IF current_subview = 0
          THEN /\ current_view' = (current_view + 1) % len(views)
               /\ current_subview' = 0
          ELSE /\ current_view' = current_view
               /\ current_subview' = current_subview
      ]_vars

\* Next pressed in the edit sub-view of the last view
C10_Witness == Pressed("A") /\ current_view = 3 /\ current_subview = 1

\* the sub-views of view number cv
SubViews(cv) == views[cv + 1].items

\* C11: the ToggleSubview button event (X) never changes current_view; on a
\* detail/edit pair it sets current_subview to (current_subview + 1) mod the
\* number of sub-views, on the main view it leaves it as it is.
C11_ToggleWraps ==
    [][ Pressed("X")' =>
          /\ current_view' = current_view
          /\ current_subview' =
                IF views[current_view + 1].tuple
                THEN (current_subview + 1) % Len(SubViews(current_view))
                ELSE current_subview
      ]_vars

\* X has brought the last view from its last sub-view back to the first
C11_Witness == Pressed("X") /\ current_view = 3 /\ current_subview = 0

\* every field of a channel but its alarm flag
NoAlarm(ch) == [ ch EXCEPT !.alarm = FALSE ]

\* C12: the events of A, X and Y leave every channel, the pump, the sensors
\* and the clock as they are; that of B changes nothing of a channel but
\* its alarm flag and leaves current_view and current_subview as they are.
C12_ButtonFrame ==
    [][ \A lbl \in { "A", "B", "X", "Y" } :
          Pressed(lbl)' =>
              /\ pump' = pump /\ saturation' = saturation /\ now' = now
              /\ lbl # "B" => channels' = channels
              /\ lbl = "B" =>
                    /\ \A c \in Channels : NoAlarm(channels'[c]) = NoAlarm(channels[c])
                    /\ current_view' = current_view
                    /\ current_subview' = current_subview
      ]_vars

\* B pressed in an edit sub-view after a channel has been dosed
C12_Witness ==
    /\ Pressed("B") /\ current_view = 2 /\ current_subview = 1
    /\ \E c \in Channels : pump[c] # << >> /\ channels[c].last_dose > 0

\* the scenario of channel 1, as far as it has run
ScenarioHolds ==
    /\ ( Updated(1) /\ now = 0 ) =>
          /\ Len(pump[1]) = 1 /\ pump[1][1].at = 0
          /\ channels[1].alarm
    /\ ( Updated(1) /\ now = 10 ) =>
          /\ Len(pump[1]) = 1
          /\ channels[1].alarm
    /\ ( Updated(1) /\ now = 40 ) =>
          /\ Len(pump[1]) = 2 /\ pump[1][2].at = 40
    /\ ( Pressed("B") /\ now = 41 ) =>
          /\ ~channels[1].alarm
          /\ saturation[1] = 20

\* C13 as stated: the update at t = 0 doses and raises the alarm, that at
\* t = 10 does not dose and the alarm stays, that at t = 40 doses a second
\* time, and the acknowledge at t = 41 clears the alarm at saturation 0.2.
C13_Scenario == ScenarioHolds

\* C13, amended: the same, for a channel constructed more than its
\* watering_delay before t = 0.
C13_ScenarioBuiltBefore ==
    ( 0 - built > channels[1].watering_delay ) => ScenarioHolds

\* the scenario run to its end, with both doses issued
C13_Witness ==
    /\ 0 - built > channels[1].watering_delay
    /\ Pressed("B") /\ now = 41
    /\ Len(pump[1]) = 2 /\ pump[1][1].at = 0 /\ pump[1][2].at = 40

\* every channel as Channel.__init__ made it
AllDefault == channels = [ c \in Channels |-> Channel(c, built) ]

\* C14: when main() has failed on the settings document, no channel has had
\* settings applied: each is as it was constructed.
C14_NoPartialApplication == pc.raised # "" /\ pc.line < 474 => AllDefault

\* the keys update_from_yml reads
Recognized ==
    { "pump_speed", "pump_time", "alarm_level", "water_level",
      "watering_delay", "auto_water", "enabled", "wet_point", "dry_point" }

\* this step is main() applying the entry of channel c without failing
Applies(c) ==
    /\ pc.line = 451 /\ pc.ch = c
    /\ pc' # pc /\ pc'.raised = ""

\* C15: applying a channel's mapping sets each recognized field to the
\* mapping's value when the key is there and leaves it otherwise, whatever
\* other keys there are; with no mapping (None) nothing changes; alarm,
\* last_dose and the channel number never change.
C15_ApplyConfig ==
    [][ \A c \in Channels :
          Applies(c) =>
            LET m == Get(config, ChannelKey(c), None)
            IN  /\ \A k \in Recognized :
                      channels'[c][k] =
                          IF m # None /\ k \in DOMAIN m THEN m[k]
                                                        ELSE channels[c][k]
                /\ m = None => channels'[c] = channels[c]
                /\ channels'[c].alarm = channels[c].alarm
                /\ channels'[c].last_dose = channels[c].last_dose
                /\ channels'[c].channel = channels[c].channel
                /\ \A d \in Channels \ { c } : channels'[d] = channels[d]
      ]_vars

\* the three entries of a document applied: one with an unknown key, one
\* that sets some of the keys only
C15_Witness ==
    /\ pc = At(455, 0) /\ config = Doc2
    /\ "icon" \in DOMAIN config.channel3
    /\ channels[3].enabled /\ channels[3].watering_delay = 30
    /\ channels[1].watering_delay = 1

\* the configuration of a channel: its nine settings
Configuration(ch) == [ k \in Recognized |-> ch[k] ]

\* C16: once the settings are loaded and the loop has started, no update()
\* and no button event changes the configuration of any channel.
C16_ConfigurationFixed ==
    [][ \A c \in Channels :
          Configuration(channels'[c]) = Configuration(channels[c])
      ]_vars

\* an update() that dosed and raised the alarm, on a channel whose settings
\* came from the document
C16_Witness ==
    \E c \in Channels :
        /\ Updated(c) /\ channels[c].watering_delay = 1
        /\ [ level |-> "info", channel |-> c ] \in log
        /\ [ level |-> "warning", channel |-> c ] \in log

\* C18: update() of an enabled channel reading below water_level sets the
\* alarm when the reading is also below alarm_level, whether it dosed or
\* not, and leaves a set alarm set; reading at or above water_level it
\* leaves the alarm flag as it is, also below alarm_level.
C18_AlarmWithinWaterBranch ==
    [][ \A c \in Channels :
          ( Updated(c)' /\ channels[c].enabled ) =>
              channels'[c].alarm =
                  IF BelowWater(c)
                  THEN channels[c].alarm \/ BelowAlarm(c)
                  ELSE channels[c].alarm
      ]_vars

\* an update() that read between water_level and alarm_level and raised
\* no alarm
C18_Witness ==
    \E c \in Channels :
        /\ Updated(c) /\ channels[c].enabled
        /\ ~BelowWater(c) /\ BelowAlarm(c)
        /\ ~channels[c].alarm

\* the palette indicator_color reads: bar_colours when r is left out
Palette == IF ic_r = << >> THEN bar_colours ELSE ic_r

\* indicator_color has returned
Returned == ic_colour # << >>

\* C17 as stated: value 0 gives the first colour of the palette and value 1
\* the last.
C17_EndpointsAsStated ==
    Returned =>
        /\ ic_value = 0 => ic_colour = Item(Palette, 0)
        /\ ic_value = Grid => ic_colour = Item(Palette, -1)

\* C17: for each palette, indicator_color(0) is the last colour of the
\* palette and indicator_color(1) is the first: the value is inverted
\* before the palette is indexed.
C17_EndpointsInverted ==
    Returned =>
        /\ ic_value = 0 => ic_colour = Item(Palette, -1)
        /\ ic_value = Grid => ic_colour = Item(Palette, 0)

\* indicator_color(0, label_colours) has returned
C17_Witness ==
    Returned /\ ic_value = 0 /\ ic_r = label_colours

\* v * (len(palette) - 1) for v = 1 - value, as a numerator over Grid
Scaled == (Grid - ic_value) * (len(Palette) - 1)

\* a is the floor of n / Grid
IsFloor(a, n) == a * Grid <= n /\ n < (a + 1) * Grid

\* lerp(palette[a][c], palette[b][c], t) for t the fractional remainder of
\* Scaled, as a numerator over Grid
Lerp(a, c) ==
    Item(Palette, a)[c] * Grid
        + (Item(Palette, a + 1)[c] - Item(Palette, a)[c]) * (Scaled - a * Grid)

\* C19 as stated: for a value strictly between 0 and 1, a and b are valid
\* indices and each component is the lerp rounded to the nearest integer
\* (whichever way a tie goes).
C19_ComponentsRounded ==
    ( Returned /\ 0 < ic_value /\ ic_value < Grid ) =>
        \E a \in 0 .. len(Palette) - 1 :
            /\ IsFloor(a, Scaled)
            /\ InRange(Palette, a) /\ InRange(Palette, a + 1)
            /\ \A c \in 1 .. 3 :
                   /\ 2 * (ic_colour[c] * Grid - Lerp(a, c)) <= Grid
                   /\ 2 * (Lerp(a, c) - ic_colour[c] * Grid) <= Grid

\* C19: for a value strictly between 0 and 1, a and b are valid indices
\* and each component is the whole part of the lerp, the fraction dropped
\* (int(), not round()).
C19_ComponentsTruncated ==
    ( Returned /\ 0 < ic_value /\ ic_value < Grid ) =>
        \E a \in 0 .. len(Palette) - 1 :
            /\ IsFloor(a, Scaled)
            /\ InRange(Palette, a) /\ InRange(Palette, a + 1)
            /\ \A c \in 1 .. 3 :
                   /\ ic_colour[c] * Grid <= Lerp(a, c)
                   /\ Lerp(a, c) < (ic_colour[c] + 1) * Grid

\* a colour between two palette entries whose lerp has a fraction above
\* one half in some component
C19_Witness ==
    /\ Returned /\ 0 < ic_value /\ ic_value < Grid
    /\ \E a \in 0 .. len(Palette) - 2 :
          /\ IsFloor(a, Scaled)
          /\ \E c \in 1 .. 3 :
                 2 * (Lerp(a, c) - ic_colour[c] * Grid) > Grid

\* C20: last_dose is the construction time until the channel's first dose;
\* it changes exactly in the steps that issue a dose, which are update()s,
\* and is then the current time, later than before; so the first dose of a
\* channel comes more than watering_delay after its construction.
C20_LastDoseFromConstruction ==
    [][ \A c \in Channels :
          /\ pump[c] = << >> => channels[c].last_dose = built
          /\ ( channels'[c].last_dose # channels[c].last_dose ) <=> Doses(c)
          /\ Doses(c) =>
                /\ Updated(c)'
                /\ channels'[c].last_dose = now'
                /\ channels'[c].last_dose > channels[c].last_dose
          /\ ( Doses(c) /\ pump[c] = << >> ) =>
                pump'[c][1].at - built > channels[c].watering_delay
          /\ ( Updated(c)' /\ channels[c].enabled /\ channels[c].auto_water
               /\ BelowWater(c) /\ pump[c] = << >>
               /\ now - built <= channels[c].watering_delay ) => ~Doses(c)
      ]_vars

\* the first dose of a channel, by an update() later than watering_delay
\* after the construction, while another channel, dry, enabled and
\* auto-watering as well, is still waiting for its own delay to pass
C20_Witness ==
    \E c, d \in Channels :
        /\ Updated(c) /\ Len(pump[c]) = 1
        /\ channels[c].last_dose = now /\ now > built
        /\ channels[d].enabled /\ channels[d].auto_water /\ BelowWater(d)
        /\ pump[d] = << >> /\ channels[d].last_dose = built
        /\ now - built <= channels[d].watering_delay

====
